---- MODULE Spec2Model ----
(***************************************************************************)
(* State-machine model of the combobox components of tabbable-combobox:    *)
(* Combobox1 (approach 1, focus context + TreeWalker) and Combobox3        *)
(* (approach 3, aria-activedescendant).  One action per DOM event the      *)
(* component handles; every action ends with the re-render React performs  *)
(* before the next event, so the variable dom always holds the rendered    *)
(* output of the current component state.                                  *)
(*                                                                         *)
(* Strings are sequences of one-character strings.  Indices into option    *)
(* lists are 0-based as in the source; At/Has convert to TLA+ sequences.   *)
(***************************************************************************)
EXTENDS Integers, Sequences, FiniteSets, TLC

VARIABLES
    approach,          \* which component is mounted: 1 (Combobox1) or 3 (Combobox3)
    options,           \* props.options, the caller's list
    disabled,          \* props.disabled
    layout,            \* the page around the combobox
    isOpen,            \* useState(false)
    inputValue,        \* useState(value || '')
    highlightedIndex,  \* useState(0)
    isTogglingRef,     \* useRef(false).current
    microtasks,        \* microtask queue of the event loop
    focus,             \* document.activeElement
    dom,               \* rendered output of the last render
    event,             \* the event handled last and what its handler did
    page,              \* the test form page: which elements are attached, which disabled
    lastFormRef,       \* useFocusManagement: useRef<HTMLFormElement | null>(null).current
    lastTabbablesRef,  \* useFocusManagement: useRef<HTMLElement[]>([]).current
    call               \* the focus-management call made last and what it returned

\* the variables of the focus-management hooks
focusVars == <<page, lastFormRef, lastTabbablesRef, call>>

vars == <<approach, options, disabled, layout, isOpen, inputValue,
          highlightedIndex, isTogglingRef, microtasks, focus, dom, event,
          page, lastFormRef, lastTabbablesRef, call>>

-----------------------------------------------------------------------------
(* Bounds of the model *)

\* longest text a single input event can put into the input
MaxTextLen == 1

-----------------------------------------------------------------------------
(* Data *)

\* "A" and "a" differ in case only; no label holds "c"
Alphabet == {"a", "A", "b", "c"}

RECURSIVE TextsOfLen(_)
TextsOfLen(n) ==
    IF n = 0 THEN {<<>>}
    ELSE {Append(t, c) : t \in TextsOfLen(n - 1), c \in Alphabet}

Texts == UNION {TextsOfLen(n) : n \in 0..MaxTextLen}

ComboboxOption(id, label, value) == [id |-> id, label |-> label, value |-> value]

\* labels "Ab", "ba", "bb"
mockOptions ==
    << ComboboxOption("1", <<"A", "b">>, <<"a", "b">>),
       ComboboxOption("2", <<"b", "a">>, <<"b", "a">>),
       ComboboxOption("3", <<"b", "b">>, <<"b", "b">>) >>

singleOption == << ComboboxOption("9", <<"B", "a">>, <<"b", "a">>) >>

OptionLists == { <<>>, singleOption, mockOptions }

\* props.value at mount: absent, or the label of an option
InitialValues == { <<>>, <<"b", "a">> }

KEYS ==
    [ARROW_UP |-> "ArrowUp", ARROW_DOWN |-> "ArrowDown", ENTER |-> "Enter",
     ESCAPE |-> "Escape", TAB |-> "Tab", SPACE |-> " "]

KeySet == {KEYS.ARROW_UP, KEYS.ARROW_DOWN, KEYS.ENTER, KEYS.ESCAPE, KEYS.TAB, KEYS.SPACE}

undefined == "undefined"

\* the page: is the combobox inside a <form>, and is there a tabbable
\* element before / after it (inside the same form when there is one)
Layout(form, before, after) == [form |-> form, before |-> before, after |-> after]

Layouts ==
    { Layout(TRUE, TRUE, TRUE),      \* the demo form of App
      Layout(TRUE, FALSE, TRUE),     \* Combobox3.tsx:392-397
      Layout(FALSE, TRUE, TRUE),     \* Combobox3.tsx:716-722
      Layout(FALSE, FALSE, FALSE) }  \* the combobox alone

-----------------------------------------------------------------------------
(* Pure helpers *)

\* seq[i] with a 0-based index is defined
Has(seq, i) == (i + 1) \in DOMAIN seq
At(seq, i) == seq[i + 1]

toLowerCaseChar(c) ==
    CASE c = "A" -> "a"
      [] c = "B" -> "b"
      [] OTHER -> c

toLowerCase(s) == [i \in DOMAIN s |-> toLowerCaseChar(s[i])]

\* String.prototype.includes: scan the start positions k, k+1, ...
RECURSIVE includesFrom(_, _, _)
includesFrom(s, search, k) ==
    IF k + Len(search) > Len(s) THEN FALSE
    ELSE IF SubSeq(s, k + 1, k + Len(search)) = search THEN TRUE
    ELSE includesFrom(s, search, k + 1)

includes(s, search) == includesFrom(s, search, 0)

\* faulty variant: the filter without toLowerCase
optionMatches_CaseSensitive(option, text) == includes(option.label, text)

\* the predicate of the filter at Combobox3.tsx:94-96
optionMatches(option, text) ==
    includes(toLowerCase(option.label), toLowerCase(text))

RECURSIVE filterOptions(_, _)
filterOptions(opts, text) ==
    IF opts = <<>> THEN <<>>
    ELSE IF optionMatches(Head(opts), text)
         THEN <<Head(opts)>> \o filterOptions(Tail(opts), text)
         ELSE filterOptions(Tail(opts), text)

\* filteredOptions of the current render
filteredOptions == filterOptions(options, inputValue)

\* faulty variant: Tab in the list of prevented keys
shouldPreventDefault_WithTab(key) ==
    key \in {KEYS.ARROW_UP, KEYS.ARROW_DOWN, KEYS.ENTER, KEYS.ESCAPE, KEYS.TAB}

shouldPreventDefault(key) ==
    key \in {KEYS.ARROW_UP, KEYS.ARROW_DOWN, KEYS.ENTER, KEYS.ESCAPE}

-----------------------------------------------------------------------------
(* Rendering *)

optionElementId(option) == "option-" \o option.id

\* Combobox3.tsx:100-102
activeDescendantId(fo, hi) ==
    IF Len(fo) > 0 /\ hi >= 0 /\ Has(fo, hi)
    THEN optionElementId(At(fo, hi))
    ELSE undefined

\* faulty variant: the attribute rendered without the isOpen test
ariaActiveDescendant_IgnoringIsOpen(open, fo, hi) ==
    IF approach = 3 THEN activeDescendantId(fo, hi) ELSE undefined

\* the aria-activedescendant attribute of the input (Combobox3 only)
ariaActiveDescendant(open, fo, hi) ==
    IF approach = 3 /\ open /\ activeDescendantId(fo, hi) # undefined
    THEN activeDescendantId(fo, hi)
    ELSE undefined

\* what the component renders for the state (open, text, hi)
render(open, text, hi) ==
    LET fo == filterOptions(options, text) IN
    [ value            |-> text,
      expanded         |-> open,
      activedescendant |-> ariaActiveDescendant(open, fo, hi),
      listbox          |-> open,
      options          |-> IF open THEN fo ELSE <<>>,
      highlighted      |-> IF open THEN {i \in 0..(Len(fo) - 1) : i = hi} ELSE {},
      noOptions        |-> open /\ Len(fo) = 0 ]

-----------------------------------------------------------------------------
(* The document *)

null == "null"
body == "body"
\* focus has left the document (browser chrome)
outside == "outside"
root == "root"

\* the tabbable elements of the page, in document order
pageElements ==
    (IF layout.before THEN <<"before">> ELSE <<>>) \o <<"input">> \o
    (IF layout.after THEN <<"after">> ELSE <<>>)

\* the option elements of a rendered popup; createPortal(..., document.body)
\* puts them after the page's elements and outside any form
popupElements(d) == [i \in 1..Len(d.options) |-> optionElementId(d.options[i])]

documentOrder(d) == pageElements \o popupElements(d)

Range(seq) == {seq[i] : i \in DOMAIN seq}

isOptionElement(el) == el \notin {"before", "input", "after", body, outside, null, root}

\* isTabbable on the elements of the document: the input unless disabled,
\* the neighbouring controls, the <button> options of Combobox1; the <div>
\* options of Combobox3 have no tabindex
isTabbable(el) ==
    CASE el = "input" -> ~disabled
      [] el \in {"before", "after"} -> TRUE
      [] OTHER -> approach = 1

\* getRoot(): the descendants of the closest form, or of document.body
rootDescendants == IF layout.form THEN pageElements ELSE documentOrder(dom)

positionIn(seq, el) ==
    IF el = root THEN 0 ELSE CHOOSE i \in DOMAIN seq : seq[i] = el

Min(S) == CHOOSE x \in S : \A y \in S : x <= y
Max(S) == CHOOSE x \in S : \A y \in S : x >= y

\* TreeWalker.nextNode() of createTreeWalker(root) from currentNode
nextNode(desc, currentNode) ==
    LET after == {i \in DOMAIN desc : i > positionIn(desc, currentNode) /\ isTabbable(desc[i])}
    IN IF after = {} THEN null ELSE desc[Min(after)]

\* TreeWalker.previousNode(); the root itself is never tabbable
previousNode(desc, currentNode) ==
    LET before == {i \in DOMAIN desc : i < positionIn(desc, currentNode) /\ isTabbable(desc[i])}
    IN IF before = {} THEN null ELSE desc[Max(before)]

getNextFocusable(current) ==
    LET next == nextNode(rootDescendants, current)
    IN IF next # null THEN next ELSE nextNode(rootDescendants, root)

getPreviousFocusable(current) ==
    LET previous == previousNode(rootDescendants, current)
        all == {i \in DOMAIN rootDescendants : isTabbable(rootDescendants[i])}
    IN IF previous # null THEN previous
       ELSE IF all = {} THEN null ELSE rootDescendants[Max(all)]

\* the browser's default action for Tab / Shift+Tab on the focused element,
\* over the document d as rendered after the handlers ran
sequentialFocusNavigation(d, current, shiftKey) ==
    LET desc == documentOrder(d)
        next == IF shiftKey THEN previousNode(desc, current) ELSE nextNode(desc, current)
    IN IF next = null THEN outside ELSE next

\* where focus is once the document d is rendered: an element that was
\* removed loses focus to the body
settleFocus(d, el) ==
    IF isOptionElement(el) /\ el \notin Range(popupElements(d)) THEN body ELSE el

-----------------------------------------------------------------------------
(* Focus management over a page of forms: utils/focus, the                 *)
(* useFocusManagement hook of Approach 2 and the FocusableProvider of      *)
(* Approach 1.  A page p records which elements are attached to the        *)
(* document and which carry the disabled attribute.                        *)

formA == "formA"
formB == "formB"

\* the elements of the page in document order: four controls in formA, a
\* button outside any form, two controls in formB
documentElements == <<"a0", "a1", "a2", "a3", "o1", "b1", "b2">>

Elements == Range(documentElements)

tagName(el) ==
    CASE el \in {"a1", "a3", "b1"} -> "input"
      [] el \in {"a0", "a2", "o1"} -> "button"
      [] OTHER -> "div"

\* getAttribute('tabindex')
tabindexAttr(el) ==
    CASE el = "a0" -> "-1"
      [] el = "b2" -> "0"
      [] OTHER -> null

\* the form element that is the parent of el in the page's markup
parentForm(el) ==
    CASE el \in {"a0", "a1", "a2", "a3"} -> formA
      [] el \in {"b1", "b2"} -> formB
      [] OTHER -> null

\* the elements a script removes and inserts again, and those it disables
Removable == {"a2", "a3"}
Disableable == {"a1", "a2"}

initialPage == [attached |-> Elements, disabled |-> {}]

\* element.matches(TABBABLE_SELECTOR); the page has no a[href] and no
\* contenteditable element
matchesTabbableSelector(p, el) ==
    \/ tagName(el) \in {"button", "input", "select", "textarea"} /\ el \notin p.disabled
    \/ tabindexAttr(el) # null /\ tabindexAttr(el) # "-1"

\* isTabbable of utils/focus
isTabbableElement(p, el) ==
    IF el \in p.disabled THEN FALSE
    ELSE IF tabindexAttr(el) = "-1" THEN FALSE
    ELSE matchesTabbableSelector(p, el)

\* element.closest('form'); a removed control has no ancestor
getClosestForm(p, el) == IF el \in p.attached THEN parentForm(el) ELSE null

\* the element descendants of container in document order
descendantsOf(p, container) ==
    SelectSeq(documentElements,
              LAMBDA el : /\ el \in p.attached
                          /\ (container = body \/ parentForm(el) = container))

\* container.querySelectorAll(TABBABLE_SELECTOR)
querySelectorAll(p, container) ==
    SelectSeq(descendantsOf(p, container), LAMBDA el : matchesTabbableSelector(p, el))

getTabbableElements(p, container) ==
    SelectSeq(querySelectorAll(p, container), LAMBDA el : isTabbableElement(p, el))

\* the index of el in list, -1 when absent (Array.prototype.findIndex)
findIndex(list, el) ==
    IF \E i \in DOMAIN list : list[i] = el
    THEN Min({i \in DOMAIN list : list[i] = el}) - 1
    ELSE -1

\* faulty variant: a lookup that never reads the cache
getAllTabbables_Uncached(p, form0, tabbables0, current) ==
    LET form == getClosestForm(p, current)
        rootEl == IF form # null THEN form ELSE body
        tabbables == getTabbableElements(p, rootEl)
    IN [ list |-> tabbables, result |-> null, hit |-> FALSE,
         lastFormRef |-> form, lastTabbablesRef |-> tabbables ]

\* getAllTabbables of useFocusManagement with the refs holding form0 and
\* tabbables0: what it returns and what it leaves in the refs
getAllTabbables(p, form0, tabbables0, current) ==
    LET form == getClosestForm(p, current)
        rootEl == IF form # null THEN form ELSE body
        tabbables == getTabbableElements(p, rootEl)
    IN IF form = form0 /\ Len(tabbables0) > 0
       THEN [ list |-> tabbables0, result |-> null, hit |-> TRUE,
              lastFormRef |-> form0, lastTabbablesRef |-> tabbables0 ]
       ELSE [ list |-> tabbables, result |-> null, hit |-> FALSE,
              lastFormRef |-> form, lastTabbablesRef |-> tabbables ]

\* faulty variant: the next element wraps around to the first
getNextTabbable_Wrapping(p, form0, tabbables0, current) ==
    LET all == getAllTabbables(p, form0, tabbables0, current)
        tabbables == all.list
        currentIndex == findIndex(tabbables, current)
        nextIndex == currentIndex + 1
    IN [all EXCEPT !.result =
            IF currentIndex = -1 THEN null
            ELSE IF nextIndex < Len(tabbables) THEN tabbables[nextIndex + 1]
            ELSE tabbables[1]]

getNextTabbable(p, form0, tabbables0, current) ==
    LET all == getAllTabbables(p, form0, tabbables0, current)
        tabbables == all.list
        currentIndex == findIndex(tabbables, current)
        nextIndex == currentIndex + 1
    IN [all EXCEPT !.result =
            IF currentIndex = -1 THEN null
            ELSE IF nextIndex < Len(tabbables) THEN tabbables[nextIndex + 1]
            ELSE null]

getPreviousTabbable(p, form0, tabbables0, current) ==
    LET all == getAllTabbables(p, form0, tabbables0, current)
        tabbables == all.list
        currentIndex == findIndex(tabbables, current)
        prevIndex == currentIndex - 1
    IN [all EXCEPT !.result =
            IF currentIndex = -1 THEN null
            ELSE IF prevIndex >= 0 THEN tabbables[prevIndex + 1]
            ELSE null]

\* getRoot of a FocusableProvider without rootElement whose container
\* sits next to element: the closest form, or document.body
getRoot(p, element) ==
    LET form == getClosestForm(p, element)
    IN IF form # null THEN form ELSE body

\* TreeWalker.nextNode() of createTreeWalker(rootEl) from currentNode: the
\* next node in document order that acceptNode accepts
walkerNextNode(p, rootEl, currentNode) ==
    LET desc == descendantsOf(p, rootEl)
        from == IF currentNode = rootEl THEN 0
                ELSE Min({i \in DOMAIN desc : desc[i] = currentNode})
        later == {i \in DOMAIN desc : i > from /\ isTabbableElement(p, desc[i])}
    IN IF later = {} THEN null ELSE desc[Min(later)]

\* TreeWalker.previousNode(); the walk never leaves rootEl and rootEl is
\* not accepted
walkerPreviousNode(p, rootEl, currentNode) ==
    LET desc == descendantsOf(p, rootEl)
        from == IF currentNode = rootEl THEN 0
                ELSE Min({i \in DOMAIN desc : desc[i] = currentNode})
        earlier == {i \in DOMAIN desc : i < from /\ isTabbableElement(p, desc[i])}
    IN IF earlier = {} THEN null ELSE desc[Max(earlier)]

\* the while loop over walker.nextNode(): the nodes pushed after n steps
RECURSIVE walkFrom(_, _, _)
walkFrom(p, rootEl, node) ==
    IF node = null THEN <<>>
    ELSE <<node>> \o walkFrom(p, rootEl, walkerNextNode(p, rootEl, node))

\* getAllFocusables of the FocusableProvider
getAllFocusablesOf(p, rootEl) ==
    walkFrom(p, rootEl, walkerNextNode(p, rootEl, rootEl))

\* getNextFocusable of the FocusableProvider, on the page p
getNextFocusableOf(p, rootEl, current) ==
    LET next == walkerNextNode(p, rootEl, current)
    IN IF next # null THEN next ELSE walkerNextNode(p, rootEl, rootEl)

\* getPreviousFocusable of the FocusableProvider, on the page p
getPreviousFocusableOf(p, rootEl, current) ==
    LET previous == walkerPreviousNode(p, rootEl, current)
        all == getAllFocusablesOf(p, rootEl)
    IN IF previous # null THEN previous
       ELSE IF all = <<>> THEN null ELSE all[Len(all)]

\* the providers a component can be mounted under; none is the tree
\* without a FocusableProvider
none == "none"
Providers == {"P1", "P2"}

\* the value object a FocusableProvider passes down, holding its three
\* callbacks; it is identified by the provider that rendered it
FocusableContextValue(provider) == provider

\* useContext(FocusableContext): the value of the nearest provider, or the
\* default value null of createContext
useContext(provider) ==
    IF provider = none THEN null ELSE FocusableContextValue(provider)

\* faulty variant: the hook hands the missing context on
useFocusable_NoThrow(provider) ==
    [threw |-> FALSE, error |-> null, value |-> useContext(provider)]

useFocusable(provider) ==
    LET context == useContext(provider)
    IN IF context = null
       THEN [ threw |-> TRUE,
              error |-> "useFocusable must be used within a FocusableProvider",
              value |-> null ]
       ELSE [threw |-> FALSE, error |-> null, value |-> context]

\* no call made since the page last changed
noCall ==
    [ fn |-> none, current |-> null, provider |-> none, result |-> null,
      list |-> <<>>, hit |-> FALSE, threw |-> FALSE, error |-> null ]

-----------------------------------------------------------------------------
(* Handlers.  A handler maps the component state s it closes over to the   *)
(* state after it, together with what it did to the event and which        *)
(* callbacks it called.                                                    *)

\* the component state as the handlers of the current render see it
current ==
    [ isOpen            |-> isOpen,
      inputValue        |-> inputValue,
      highlightedIndex  |-> highlightedIndex,
      isTogglingRef     |-> isTogglingRef,
      microtasks        |-> microtasks,
      defaultPrevented  |-> FALSE,
      onInputChange     |-> <<>>,
      onSelectionChange |-> <<>>,
      focusCall         |-> null ]

filtered(s) == filterOptions(options, s.inputValue)

\* faulty variant: typing does not reset the highlighted index
handleInputChange_KeepHighlight(s, value) ==
    IF disabled THEN s
    ELSE [s EXCEPT !.inputValue = value,
                   !.isOpen = IF ~s.isTogglingRef THEN TRUE ELSE @,
                   !.onInputChange = Append(@, value)]

handleInputChange(s, value) ==
    IF disabled THEN s
    ELSE [s EXCEPT !.inputValue = value,
                   !.isOpen = IF ~s.isTogglingRef THEN TRUE ELSE @,
                   !.highlightedIndex = IF ~s.isTogglingRef THEN 0 ELSE @,
                   !.onInputChange = Append(@, value)]

\* faulty variant: a selection that leaves the input text alone
handleOptionSelect_KeepText(s, option) ==
    [s EXCEPT !.isOpen = FALSE,
              !.highlightedIndex = 0,
              !.onSelectionChange = Append(@, option)]

handleOptionSelect(s, option) ==
    [s EXCEPT !.inputValue = option.label,
              !.isOpen = FALSE,
              !.highlightedIndex = 0,
              !.onSelectionChange = Append(@, option)]

\* faulty variant: ArrowDown runs past the last option
onArrowDown_NoWrap(s) ==
    IF ~s.isOpen THEN [s EXCEPT !.isOpen = TRUE]
    ELSE [s EXCEPT !.highlightedIndex = @ + 1]

\* faulty variant: ArrowDown resets the highlighted index when it opens
onArrowDown_ResetOnOpen(s) ==
    IF ~s.isOpen THEN [s EXCEPT !.isOpen = TRUE, !.highlightedIndex = 0]
    ELSE [s EXCEPT !.highlightedIndex =
              IF @ < Len(filtered(s)) - 1 THEN @ + 1 ELSE 0]

\* case KEYS.ARROW_DOWN
onArrowDown(s) ==
    IF ~s.isOpen THEN [s EXCEPT !.isOpen = TRUE]
    ELSE [s EXCEPT !.highlightedIndex =
              IF @ < Len(filtered(s)) - 1 THEN @ + 1 ELSE 0]

\* faulty variant: ArrowUp stops at the first option
onArrowUp_NoWrap(s) ==
    IF s.isOpen
    THEN [s EXCEPT !.highlightedIndex = IF @ > 0 THEN @ - 1 ELSE 0]
    ELSE s

\* case KEYS.ARROW_UP
onArrowUp(s) ==
    IF s.isOpen
    THEN [s EXCEPT !.highlightedIndex =
              IF @ > 0 THEN @ - 1 ELSE Len(filtered(s)) - 1]
    ELSE s

\* case KEYS.ENTER
\* faulty variant: Enter selects from the caller's list, not the filtered one
onEnter_Unfiltered(s) ==
    IF s.isOpen /\ Has(options, s.highlightedIndex)
    THEN handleOptionSelect(s, At(options, s.highlightedIndex))
    ELSE s

onEnter(s) ==
    IF s.isOpen /\ Has(filtered(s), s.highlightedIndex)
    THEN handleOptionSelect(s, At(filtered(s), s.highlightedIndex))
    ELSE s

\* faulty variant: Escape without setHighlightedIndex(0)
onEscape_KeepHighlight(s) == [s EXCEPT !.isOpen = FALSE]

\* faulty variant: Escape also blurs the input
onEscape_Blur(s) ==
    [s EXCEPT !.isOpen = FALSE, !.highlightedIndex = 0, !.focusCall = body]

\* case KEYS.ESCAPE
onEscape(s) == [s EXCEPT !.isOpen = FALSE, !.highlightedIndex = 0]

\* case KEYS.TAB of Combobox1: close, then move focus with the TreeWalker
onTab1(s, shiftKey) ==
    LET closed == IF s.isOpen
                  THEN [s EXCEPT !.isOpen = FALSE, !.highlightedIndex = 0]
                  ELSE s
        nextElement == IF shiftKey THEN getPreviousFocusable("input")
                       ELSE getNextFocusable("input")
    IN IF nextElement # null
       THEN [closed EXCEPT !.defaultPrevented = TRUE, !.focusCall = nextElement]
       ELSE closed

\* case KEYS.TAB of Combobox3: close and leave focus to the browser
onTab3(s, shiftKey) ==
    IF s.isOpen
    THEN [s EXCEPT !.isOpen = FALSE, !.highlightedIndex = 0]
    ELSE s

\* faulty variant: the key handler without the disabled test
handleKeyDown_IgnoringDisabled(s, key, shiftKey) ==
    LET p == [s EXCEPT !.defaultPrevented = shouldPreventDefault(key)] IN
    CASE key = KEYS.ARROW_DOWN -> onArrowDown(p)
      [] key = KEYS.ARROW_UP   -> onArrowUp(p)
      [] key = KEYS.ENTER      -> onEnter(p)
      [] key = KEYS.ESCAPE     -> onEscape(p)
      [] key = KEYS.TAB        -> IF approach = 1 THEN onTab1(p, shiftKey)
                                  ELSE onTab3(p, shiftKey)
      [] OTHER                 -> p

handleKeyDown(s, key, shiftKey) ==
    IF disabled THEN s
    ELSE LET p == [s EXCEPT !.defaultPrevented = shouldPreventDefault(key)] IN
         CASE key = KEYS.ARROW_DOWN -> onArrowDown(p)
           [] key = KEYS.ARROW_UP   -> onArrowUp(p)
           [] key = KEYS.ENTER      -> onEnter(p)
           [] key = KEYS.ESCAPE     -> onEscape(p)
           [] key = KEYS.TAB        -> IF approach = 1 THEN onTab1(p, shiftKey)
                                       ELSE onTab3(p, shiftKey)
           [] OTHER                 -> p

\* faulty variant: a click that never queues the microtask
handleToggle_NoMicrotask(s) ==
    IF disabled THEN s
    ELSE [s EXCEPT !.isTogglingRef = TRUE,
                   !.isOpen = ~@,
                   !.highlightedIndex = 0]

\* faulty variant: a click that opens but never closes
handleToggle_OpenOnly(s) ==
    IF disabled THEN s
    ELSE [s EXCEPT !.isTogglingRef = TRUE,
                   !.isOpen = TRUE,
                   !.highlightedIndex = 0,
                   !.microtasks = Append(@, "resetToggling")]

\* setIsOpen(prev => { setHighlightedIndex(0); return !prev; }) and the
\* microtask that clears the flag
handleToggle(s) ==
    IF disabled THEN s
    ELSE [s EXCEPT !.isTogglingRef = TRUE,
                   !.isOpen = ~@,
                   !.highlightedIndex = 0,
                   !.microtasks = Append(@, "resetToggling")]

\* faulty variant: every mousedown counts as outside
comboboxContains_Nothing(target) == FALSE

\* combobox.contains(target): the container holds the input only; the popup
\* is rendered into document.body
comboboxContains(target) == target = "input"

handleClickOutside(s, target) ==
    IF s.isOpen /\ ~comboboxContains(target)
    THEN [s EXCEPT !.isOpen = FALSE]
    ELSE s

-----------------------------------------------------------------------------
(* Events *)

\* what the handlers of the current render close over, kept with the event
\* they handled
seen ==
    [ isOpen           |-> isOpen,
      highlightedIndex |-> highlightedIndex,
      afterClick       |-> event.type = "click" /\ event.target = "input",
      afterTyping      |-> event.type = "input" /\ event.value # <<>> ]

Event(type, key, shiftKey, target, value, s) ==
    [ type              |-> type,
      key               |-> key,
      shiftKey          |-> shiftKey,
      target            |-> target,
      value             |-> value,
      seen              |-> seen,
      defaultPrevented  |-> s.defaultPrevented,
      onInputChange     |-> s.onInputChange,
      onSelectionChange |-> s.onSelectionChange ]

\* the state after an event: the handlers' state updates are rendered
\* before the next event is handled
Commit(s, ev, el) ==
    /\ isOpen' = s.isOpen
    /\ inputValue' = s.inputValue
    /\ highlightedIndex' = s.highlightedIndex
    /\ isTogglingRef' = s.isTogglingRef
    /\ microtasks' = s.microtasks
    /\ dom' = render(s.isOpen, s.inputValue, s.highlightedIndex)
    /\ focus' = settleFocus(dom', el)
    /\ event' = ev
    /\ UNCHANGED <<approach, options, disabled, layout>>
    /\ UNCHANGED focusVars

\* element.focus() moves focus to a focusable element, blur() to the body
focusable(el) == el = body \/ isTabbable(el)

\* document.activeElement after the focus call a handler made, if any
focusAfter(s) ==
    IF s.focusCall # null /\ focusable(s.focusCall) THEN s.focusCall ELSE focus

\* an event is dispatched in a task of its own: the microtasks queued by
\* the previous one have run
idle == microtasks = <<>>

\* keyboard and input events go to the focused element; a disabled input
\* cannot be focused and receives events dispatched by a script only
\* (Combobox3.tsx:845-850)
reachesInput == focus = "input" \/ disabled

Init ==
    /\ approach \in {1, 3}
    /\ options \in OptionLists
    /\ disabled \in BOOLEAN
    /\ layout \in Layouts
    /\ isOpen = FALSE
    /\ inputValue \in InitialValues
    /\ highlightedIndex = 0
    /\ isTogglingRef = FALSE
    /\ microtasks = <<>>
    /\ focus = body
    /\ dom = render(isOpen, inputValue, highlightedIndex)
    /\ event = [ type |-> "mount", key |-> "", shiftKey |-> FALSE, target |-> null,
                 value |-> <<>>,
                 seen |-> [isOpen |-> FALSE, highlightedIndex |-> 0, afterClick |-> FALSE,
                          afterTyping |-> FALSE],
                 defaultPrevented |-> FALSE, onInputChange |-> <<>>,
                 onSelectionChange |-> <<>> ]
    /\ page = initialPage
    /\ lastFormRef = null
    /\ lastTabbablesRef = <<>>
    /\ call = noCall

\* focus reaches the input without a click (Tab from another element,
\* input.focus())
FocusInput ==
    /\ idle
    /\ ~disabled
    /\ focus # "input"
    /\ Commit(current, Event("focus", "", FALSE, "input", <<>>, current), "input")

KeyDown(key, shiftKey) ==
    /\ idle
    /\ reachesInput
    /\ LET s == handleKeyDown(current, key, shiftKey)
           d == render(s.isOpen, s.inputValue, s.highlightedIndex)
           el == IF key = KEYS.TAB /\ ~s.defaultPrevented /\ focus = "input"
                 THEN sequentialFocusNavigation(d, "input", shiftKey)
                 ELSE focusAfter(s)
       IN Commit(s, Event("keydown", key, shiftKey, "input", <<>>, s), el)

\* onChange of the input; it is not attached while disabled
Input(value) ==
    /\ idle
    /\ reachesInput
    /\ value # inputValue
    /\ LET s == IF disabled THEN current ELSE handleInputChange(current, value)
       IN Commit(s, Event("input", "", FALSE, "input", value, s), focusAfter(s))

\* the element focused by a mousedown on target
mousedownFocus(target) ==
    CASE target = "input" -> IF disabled THEN focus ELSE "input"
      [] target \in {"before", "after"} -> target
      [] target = body -> body
      [] OTHER -> IF approach = 1 THEN target ELSE body

mousedownTargets == Range(documentOrder(dom)) \cup {body}

\* a mouse button pressed on target: the document's mousedown listener
MouseDown(target) ==
    /\ idle
    /\ target \in mousedownTargets
    /\ LET s == handleClickOutside(current, target)
       IN Commit(s, Event("mousedown", "", FALSE, target, <<>>, s), mousedownFocus(target))

\* a click on the input: mousedown on it, then onClick (not attached while
\* disabled)
ClickInput ==
    /\ idle
    /\ LET m == handleClickOutside(current, "input")
           s == IF disabled THEN m ELSE handleToggle(m)
       IN Commit(s, Event("click", "", FALSE, "input", <<>>, s),
                 IF s.focusCall # null THEN focusAfter(s) ELSE mousedownFocus("input"))

\* a click event on a rendered option
OptionClick(i) ==
    /\ idle
    /\ i \in DOMAIN dom.options
    /\ LET s == handleOptionSelect(current, dom.options[i])
       IN Commit(s, Event("click", "", FALSE, optionElementId(dom.options[i]), <<>>, s),
                 focusAfter(s))

\* Promise.resolve().then(() => { isTogglingRef.current = false; })
ResetToggling ==
    /\ microtasks # <<>>
    /\ Head(microtasks) = "resetToggling"
    /\ isTogglingRef' = FALSE
    /\ microtasks' = Tail(microtasks)
    /\ UNCHANGED <<approach, options, disabled, layout, isOpen, inputValue,
                   highlightedIndex, focus, dom, event>>
    /\ UNCHANGED focusVars

Next ==
    \/ FocusInput
    \/ \E key \in KeySet, shiftKey \in BOOLEAN :
          \* the handlers read shiftKey for Tab only
          (shiftKey => key = KEYS.TAB) /\ KeyDown(key, shiftKey)
    \/ \E value \in Texts : Input(value)
    \/ \E target \in {"before", "input", "after", body} \cup
                     {optionElementId(o) : o \in Range(options)} : MouseDown(target)
    \/ ClickInput
    \/ \E i \in 1..Len(options) : OptionClick(i)
    \/ ResetToggling

Spec == Init /\ [][Next]_vars

-----------------------------------------------------------------------------
(* The focus-management hooks on a page that scripts change between calls *)

\* the combobox of the page is left alone
comboboxVars == <<approach, options, disabled, layout, isOpen, inputValue,
                  highlightedIndex, isTogglingRef, microtasks, focus, dom, event>>

\* a script removes a control from its form
RemoveElement(el) ==
    /\ el \in page.attached
    /\ page' = [page EXCEPT !.attached = @ \ {el}]
    /\ call' = noCall
    /\ UNCHANGED <<lastFormRef, lastTabbablesRef>>
    /\ UNCHANGED comboboxVars

\* a script inserts a removed control at its place again
AddElement(el) ==
    /\ el \notin page.attached
    /\ page' = [page EXCEPT !.attached = @ \cup {el}]
    /\ call' = noCall
    /\ UNCHANGED <<lastFormRef, lastTabbablesRef>>
    /\ UNCHANGED comboboxVars

\* a script sets or clears the disabled attribute of a control
SetDisabled(el, value) ==
    /\ (el \in page.disabled) # value
    /\ page' = [page EXCEPT !.disabled = IF value THEN @ \cup {el} ELSE @ \ {el}]
    /\ call' = noCall
    /\ UNCHANGED <<lastFormRef, lastTabbablesRef>>
    /\ UNCHANGED comboboxVars

\* what a call of the hook leaves behind
Returned(fn, element, r) ==
    /\ lastFormRef' = r.lastFormRef
    /\ lastTabbablesRef' = r.lastTabbablesRef
    /\ call' = [noCall EXCEPT !.fn = fn, !.current = element,
                              !.result = r.result, !.list = r.list,
                              !.hit = r.hit]
    /\ UNCHANGED page
    /\ UNCHANGED comboboxVars

\* a component calls getAllTabbables(element) for an element of the page
CallGetAllTabbables(element) ==
    /\ element \in page.attached
    /\ Returned("getAllTabbables", element,
                getAllTabbables(page, lastFormRef, lastTabbablesRef, element))

CallGetNextTabbable(element) ==
    /\ element \in page.attached
    /\ Returned("getNextTabbable", element,
                getNextTabbable(page, lastFormRef, lastTabbablesRef, element))

CallGetPreviousTabbable(element) ==
    /\ element \in page.attached
    /\ Returned("getPreviousTabbable", element,
                getPreviousTabbable(page, lastFormRef, lastTabbablesRef, element))

\* a component that calls useFocusable renders under provider
CallUseFocusable(provider) ==
    LET r == useFocusable(provider) IN
    /\ call' = [noCall EXCEPT !.fn = "useFocusable", !.provider = provider,
                              !.result = r.value, !.threw = r.threw,
                              !.error = r.error]
    /\ UNCHANGED <<page, lastFormRef, lastTabbablesRef>>
    /\ UNCHANGED comboboxVars

FocusInit ==
    /\ Init
    /\ approach = 1
    /\ options = mockOptions
    /\ ~disabled
    /\ layout = Layout(TRUE, TRUE, TRUE)
    /\ inputValue = <<>>

FocusNext ==
    \/ \E el \in Removable : RemoveElement(el)
    \/ \E el \in Removable : AddElement(el)
    \/ \E el \in Disableable, value \in BOOLEAN : SetDisabled(el, value)
    \/ \E element \in Elements : CallGetAllTabbables(element)
    \/ \E element \in Elements : CallGetNextTabbable(element)
    \/ \E element \in Elements : CallGetPreviousTabbable(element)
    \/ \E provider \in Providers \cup {none} : CallUseFocusable(provider)

FocusSpec == FocusInit /\ [][FocusNext]_vars

\* the event loop runs every queued microtask: a microtask checkpoint
\* follows each handler before the next task
LiveSpec == Spec /\ WF_vars(ResetToggling)

-----------------------------------------------------------------------------
(* Properties *)

\* the step handles a keydown of key on an enabled combobox
KeyStep(key) ==
    idle /\ ~disabled /\ event'.type = "keydown" /\ event'.key = key

\* the state is the one right after a keydown of key on an enabled combobox
AfterKey(key) ==
    idle /\ ~disabled /\ event.type = "keydown" /\ event.key = key

\* C1: on an enabled combobox a keydown of Escape, in any state, leaves the
\* popup closed (isOpen false, aria-expanded false, no listbox rendered)
\* and the highlighted index 0, and does not change the input text.
C1_EscapeCloses ==
    [][ KeyStep(KEYS.ESCAPE) =>
          /\ ~isOpen'
          /\ ~dom'.expanded
          /\ ~dom'.listbox
          /\ dom'.options = <<>>
          /\ highlightedIndex' = 0
          /\ inputValue' = inputValue
          /\ dom'.value = dom.value ]_vars

\* Escape was pressed while the popup was open on an option other than the
\* first, with a filter text in the input
C1_Witness ==
    /\ AfterKey(KEYS.ESCAPE)
    /\ event.seen.isOpen
    /\ event.seen.highlightedIndex > 0
    /\ inputValue # <<>>
    /\ ~isOpen

\* needle occurs in hay at some position
Occurs(needle, hay) ==
    \E k \in 0..Len(hay) :
        /\ k + Len(needle) <= Len(hay)
        /\ \A j \in 1..Len(needle) : hay[k + j] = needle[j]

\* the indices of the options of all whose lower-cased label holds the
\* lower-cased text
MatchingIndices(all, text) ==
    {j \in DOMAIN all : Occurs(toLowerCase(text), toLowerCase(all[j].label))}

\* shown is the sub-list of all at exactly the indices in wanted, in the
\* order of all
IsSublistAt(shown, all, wanted) ==
    \E f \in [DOMAIN shown -> DOMAIN all] :
        /\ \A i \in DOMAIN shown : shown[i] = all[f[i]]
        /\ \A i, j \in DOMAIN shown : i < j => f[i] < f[j]
        /\ {f[i] : i \in DOMAIN shown} = wanted

\* C2: in every state the options shown in the popup are exactly the
\* sub-list of the caller's options whose label, lower-cased, contains the
\* lower-cased input text, in the caller's order; with empty input text it
\* is the whole list; the caller's list is never modified.
C2_ShownIsCaseInsensitiveFilter ==
    [][ /\ dom'.listbox =>
              IsSublistAt(dom'.options, options', MatchingIndices(options', inputValue'))
        /\ (dom'.listbox /\ inputValue' = <<>>) => dom'.options = options'
        /\ options' = options ]_vars

\* the popup shows some but not all options for a text whose case differs
\* from the labels it matches
C2_Witness ==
    /\ dom.listbox
    /\ inputValue = <<"A">>
    /\ Len(dom.options) = 2
    /\ Len(options) = 3
    /\ \E i \in DOMAIN dom.options : ~Occurs(inputValue, dom.options[i].label)

\* C3: when the popup is open and the highlighted index h is a valid index
\* of the filtered list, a keydown of Enter sets the input text to the label
\* of filtered option h, closes the popup, resets the highlighted index to 0
\* and calls onSelectionChange exactly once, with that option.
C3_EnterSelectsHighlighted ==
    [][ (KeyStep(KEYS.ENTER) /\ dom.listbox /\ Has(dom.options, highlightedIndex)) =>
          /\ inputValue' = At(dom.options, highlightedIndex).label
          /\ dom'.value = At(dom.options, highlightedIndex).label
          /\ ~isOpen'
          /\ ~dom'.listbox
          /\ highlightedIndex' = 0
          /\ event'.onSelectionChange = <<At(dom.options, highlightedIndex)>> ]_vars

\* Enter selected an option other than the first, replacing a different text
C3_Witness ==
    /\ AfterKey(KEYS.ENTER)
    /\ event.seen.isOpen
    /\ event.seen.highlightedIndex > 0
    /\ Len(event.onSelectionChange) = 1
    /\ inputValue = event.onSelectionChange[1].label
    /\ inputValue = <<"b", "b">>

\* the step handles an event the user makes on the focused input other than
\* a keydown of Tab
InputInteractionStep ==
    /\ idle
    /\ \/ event'.type = "keydown" /\ event'.key # KEYS.TAB
       \/ event'.type = "input"
       \/ event'.type = "click" /\ event'.target = "input"

\* C4: in Approach 3 real focus stays on the input: with focus on the input,
\* no click on the input, typing, ArrowUp, ArrowDown, Enter or Escape moves
\* DOM focus to another element, in particular not to a popup option.
C4_FocusStaysOnInput ==
    [][ (approach = 3 /\ focus = "input" /\ InputInteractionStep) =>
            focus' = "input" /\ ~isOptionElement(focus') ]_vars

\* focus is on the input after Escape closed a popup in which the
\* highlight had been moved
C4_Witness ==
    /\ approach = 3
    /\ focus = "input"
    /\ AfterKey(KEYS.ESCAPE)
    /\ event.seen.isOpen
    /\ event.seen.highlightedIndex > 0

\* C5: in Approach 3 the input carries aria-activedescendant iff the popup
\* is open, the filtered list is non-empty and the highlighted index is a
\* valid index of it; its value is then "option-" followed by the id of the
\* filtered option at the highlighted index, the option rendered as
\* highlighted; it is absent when the popup is closed or has no options.
C5_ActiveDescendant ==
    approach = 3 =>
        /\ dom.activedescendant # undefined <=>
              (isOpen /\ dom.options # <<>> /\
               highlightedIndex \in 0..(Len(dom.options) - 1))
        /\ dom.activedescendant # undefined =>
              /\ dom.activedescendant = "option-" \o dom.options[highlightedIndex + 1].id
              /\ dom.highlighted = {highlightedIndex}
              /\ dom.options[highlightedIndex + 1] \in Range(options)
        /\ (~isOpen \/ options = <<>>) => dom.activedescendant = undefined

\* the attribute names an option other than the first of a filtered list
C5_Witness ==
    /\ approach = 3
    /\ dom.activedescendant = "option-2"
    /\ highlightedIndex = 1
    /\ inputValue = <<"a">>

\* index of the last option shown, -1 when none is
LastIndex(d) == Len(d.options) - 1

\* C6: when the popup is open, a keydown of ArrowDown moves the highlighted
\* index from h to h+1 if h is before the last filtered option and wraps to
\* 0 when h is the last one; the popup stays open and the input text is
\* unchanged.
C6_ArrowDownMovesOrWraps ==
    [][ (KeyStep(KEYS.ARROW_DOWN) /\ isOpen) =>
          /\ highlightedIndex < LastIndex(dom) => highlightedIndex' = highlightedIndex + 1
          /\ highlightedIndex = LastIndex(dom) => highlightedIndex' = 0
          /\ isOpen'
          /\ dom'.listbox
          /\ inputValue' = inputValue ]_vars

\* ArrowDown wrapped from the last of several options to the first
C6_Witness ==
    /\ AfterKey(KEYS.ARROW_DOWN)
    /\ event.seen.isOpen
    /\ Len(dom.options) > 1
    /\ event.seen.highlightedIndex = LastIndex(dom)
    /\ highlightedIndex = 0

\* C7: when the popup is open, a keydown of ArrowUp moves the highlighted
\* index from h to h-1 if h > 0 and wraps from 0 to the last filtered
\* option; when the popup is closed, ArrowUp changes neither the open flag,
\* the highlighted index nor the input text.
C7_ArrowUpMovesOrWraps ==
    [][ KeyStep(KEYS.ARROW_UP) =>
          /\ (isOpen /\ highlightedIndex > 0) => highlightedIndex' = highlightedIndex - 1
          /\ (isOpen /\ highlightedIndex = 0) => highlightedIndex' = LastIndex(dom)
          /\ (isOpen /\ highlightedIndex = 0 /\ dom.options # <<>>) =>
                 /\ Has(dom'.options, highlightedIndex')
                 /\ dom'.highlighted = {LastIndex(dom')}
          /\ ~isOpen => /\ ~isOpen'
                        /\ highlightedIndex' = highlightedIndex
          /\ inputValue' = inputValue ]_vars

\* ArrowUp wrapped from the first of several options to the last
C7_Witness ==
    /\ AfterKey(KEYS.ARROW_UP)
    /\ event.seen.isOpen
    /\ event.seen.highlightedIndex = 0
    /\ Len(dom.options) > 1
    /\ highlightedIndex = LastIndex(dom)

\* C8: when the popup is closed and the combobox is enabled, a keydown of
\* ArrowDown opens the popup and does nothing else: the highlighted index
\* and the input text keep their values and no callback is invoked.
C8_ArrowDownOpensOnly ==
    [][ (KeyStep(KEYS.ARROW_DOWN) /\ ~isOpen) =>
          /\ isOpen'
          /\ dom'.listbox
          /\ highlightedIndex' = highlightedIndex
          /\ inputValue' = inputValue
          /\ isTogglingRef' = isTogglingRef
          /\ microtasks' = microtasks
          /\ focus' = focus
          /\ event'.onInputChange = <<>>
          /\ event'.onSelectionChange = <<>> ]_vars

\* ArrowDown reopened a popup that had been closed on an option other than
\* the first
C8_Witness ==
    /\ AfterKey(KEYS.ARROW_DOWN)
    /\ ~event.seen.isOpen
    /\ event.seen.highlightedIndex > 0
    /\ isOpen
    /\ highlightedIndex = event.seen.highlightedIndex

\* the element after the input in the natural tab order
NextInTabOrder == IF layout.after THEN "after" ELSE outside

\* C9: in Approach 3 a keydown of Tab closes the popup if it is open
\* (resetting the highlighted index to 0), never prevents the browser
\* default, and focus therefore moves to the next element in the natural
\* tab order, the element after the combobox input, never to a popup option.
C9_TabClosesAndMovesOn ==
    [][ (approach = 3 /\ KeyStep(KEYS.TAB) /\ focus = "input") =>
          /\ ~isOpen'
          /\ ~dom'.listbox
          /\ isOpen => highlightedIndex' = 0
          /\ ~event'.defaultPrevented
          /\ ~event'.shiftKey => focus' = NextInTabOrder
          /\ focus' # "input"
          /\ ~isOptionElement(focus') ]_vars

\* Tab closed an open popup and focus went to the element after the input
C9_Witness ==
    /\ approach = 3
    /\ AfterKey(KEYS.TAB)
    /\ ~event.shiftKey
    /\ event.seen.isOpen
    /\ event.seen.highlightedIndex > 0
    /\ ~isOpen
    /\ focus = "after"

\* C10: on an enabled combobox every text input event sets the input text
\* to the typed value, calls onInputChange exactly once with that value and
\* leaves the popup open with the highlighted index 0, so that the first
\* option of the new filtered list is the highlighted one, whatever the
\* state before, including right after a click on the input.
C10_InputOpensAndResets ==
    [][ (idle /\ ~disabled /\ event'.type = "input") =>
          /\ inputValue' = event'.value
          /\ dom'.value = event'.value
          /\ event'.onInputChange = <<event'.value>>
          /\ isOpen'
          /\ dom'.listbox
          /\ highlightedIndex' = 0
          /\ dom'.options # <<>> => dom'.highlighted = {0} ]_vars

\* text was typed right after a click on the input that had closed the
\* popup
C10_Witness ==
    /\ ~disabled
    /\ event.type = "input"
    /\ event.seen.afterClick
    /\ ~event.seen.isOpen
    /\ isOpen
    /\ inputValue # <<>>
    /\ dom.options # <<>>

\* the step handles a click on the input of an enabled combobox
ClickStep ==
    idle /\ ~disabled /\ event'.type = "click" /\ event'.target = "input"

\* C11: after the user types a filter text, then clears the input, then
\* clicks the input, the popup is open with every option of the full list
\* visible and aria-activedescendant names the first option of the full
\* list.
C11_TypeClearClickShowsAll ==
    [][ ( /\ approach = 3
          /\ ClickStep
          /\ event.type = "input"
          /\ event.value = <<>>
          /\ event.seen.afterTyping ) =>
          /\ isOpen'
          /\ dom'.listbox
          /\ dom'.options = options
          /\ options # <<>> =>
                 dom'.activedescendant = "option-" \o options[1].id ]_vars

\* C12: on an enabled combobox a click on the input toggles the popup: it
\* opens a closed popup and closes an open one, in both cases setting the
\* highlighted index to 0 and leaving the input text unchanged; two
\* consecutive clicks return the open flag to its earlier value.
C12_ClickToggles ==
    [][ ClickStep =>
          /\ isOpen' = ~isOpen
          /\ dom'.listbox = ~dom.listbox
          /\ dom'.expanded = ~dom.expanded
          /\ highlightedIndex' = 0
          /\ inputValue' = inputValue
          /\ (event.type = "click" /\ event.target = "input") =>
                 isOpen' = event.seen.isOpen ]_vars

\* the second of two consecutive clicks reopened the popup over a filter
\* text
C12_Witness ==
    /\ ~disabled
    /\ event.type = "click"
    /\ event.target = "input"
    /\ event.seen.afterClick
    /\ ~event.seen.isOpen
    /\ isOpen
    /\ inputValue # <<>>

\* C13: a mousedown whose target is outside the combobox container closes
\* an open popup; a mousedown whose target is inside the container (for
\* example on the input) does not change the open flag; a mousedown while
\* the popup is closed changes nothing.
C13_MouseDownOutsideCloses ==
    [][ (idle /\ event'.type = "mousedown") =>
          /\ (isOpen /\ event'.target # "input") => (~isOpen' /\ ~dom'.listbox)
          /\ event'.target = "input" => isOpen' = isOpen
          /\ ~isOpen =>
                /\ ~isOpen'
                /\ highlightedIndex' = highlightedIndex
                /\ inputValue' = inputValue
                /\ dom' = dom
                /\ event'.onInputChange = <<>>
                /\ event'.onSelectionChange = <<>> ]_vars

\* a mousedown on the element after the combobox closed an open popup
C13_Witness ==
    /\ event.type = "mousedown"
    /\ event.target = "after"
    /\ event.seen.isOpen
    /\ ~isOpen

\* C14: while disabled, a click on the input, a keydown of any key and a
\* text input event each leave the open flag, the highlighted index and the
\* input text unchanged, call neither onInputChange nor onSelectionChange
\* and never prevent the event's default; a combobox disabled from mount
\* never shows a popup or an aria-activedescendant.
C14_DisabledIgnoresEvents ==
    [][ /\ disabled =>
              /\ ~isOpen'
              /\ ~dom'.listbox
              /\ ~dom'.expanded
              /\ dom'.activedescendant = undefined
        /\ ( /\ disabled
             /\ idle
             /\ event'.type \in {"click", "keydown", "input"}
             /\ event'.target = "input" ) =>
              /\ isOpen' = isOpen
              /\ highlightedIndex' = highlightedIndex
              /\ inputValue' = inputValue
              /\ event'.onInputChange = <<>>
              /\ event'.onSelectionChange = <<>>
              /\ ~event'.defaultPrevented ]_vars

\* ArrowDown reached the disabled input of a combobox with options
C14_Witness ==
    /\ disabled
    /\ approach = 3
    /\ options # <<>>
    /\ event.type = "keydown"
    /\ event.key = KEYS.ARROW_DOWN
    /\ ~isOpen

\* C19: in every reachable state of a combobox the highlighted index is
\* never negative.
C19_HighlightNeverNegative == highlightedIndex >= 0

\* C20: in every reachable state in which the popup is closed the
\* highlighted index is 0, whichever way the popup was closed.
C20_ClosedMeansFirst == ~isOpen => highlightedIndex = 0

-----------------------------------------------------------------------------
(* Properties of the focus-management hooks *)

\* the scope of a call for element: its closest form, or document.body
scopeOf(element) ==
    IF element \in page.attached /\ parentForm(element) # null
    THEN parentForm(element) ELSE body

\* el is at present a descendant of scope
inScope(el, scope) ==
    el \in page.attached /\ (scope = body \/ parentForm(el) = scope)

\* the tabbable descendants of scope at present, in document order
liveTabbables(scope) ==
    SelectSeq(documentElements,
              LAMBDA el : /\ inScope(el, scope)
                          /\ el \notin page.disabled
                          /\ tabindexAttr(el) # "-1"
                          /\ (tagName(el) \in {"button", "input"} \/ tabindexAttr(el) = "0"))

\* the state is the one right after a call of one of the hook's functions
AfterHookCall ==
    call.fn \in {"getAllTabbables", "getNextTabbable", "getPreviousTabbable"}

\* the elements the call returned
returnedElements ==
    IF call.fn = "getAllTabbables" THEN Range(call.list)
    ELSE IF call.result = null THEN {} ELSE {call.result}

\* C15: Approach 2 focus management is scoped to a form boundary: every
\* element returned by getAllTabbables, getNextTabbable or
\* getPreviousTabbable is at the time of the call a descendant of the
\* current element's closest form, or of document.body for a current
\* element outside any form.
C15_ScopedToForm ==
    AfterHookCall =>
        \A el \in returnedElements : inScope(el, scopeOf(call.current))

\* the current element of the call is a tabbable element of a form
CurrentTabbableInForm ==
    /\ call.current \in page.attached
    /\ parentForm(call.current) # null
    /\ isTabbableElement(page, call.current)

\* what Approach 1 returns for the current element of the call
approach1Next ==
    getNextFocusableOf(page, getRoot(page, call.current), call.current)

approach1Previous ==
    getPreviousFocusableOf(page, getRoot(page, call.current), call.current)

C17_ThrowsOutsideProvider ==
    call.fn = "useFocusable" =>
        IF call.provider = none
        THEN /\ call.threw
             /\ call.error = "useFocusable must be used within a FocusableProvider"
        ELSE /\ ~call.threw
             /\ call.error = null
             /\ call.result = FocusableContextValue(call.provider)
             /\ call.result # null

\* useFocusable was called in a tree without a provider and threw
C17_Witness ==
    /\ call.fn = "useFocusable"
    /\ call.provider = none
    /\ call.threw

\* C18: after any sequence of DOM changes interleaved with calls,
\* getAllTabbables(current) returns exactly the elements that are tabbable
\* descendants of current's closest form at the time of the call, in
\* document order.
C18_GetAllTabbablesIsLive ==
    call.fn = "getAllTabbables" =>
        call.list = liveTabbables(scopeOf(call.current))

-----------------------------------------------------------------------------
(* Properties of the callbacks and of the toggling flag *)

\* the step runs the microtask queued by a click
MicrotaskStep ==
    microtasks # <<>> /\ microtasks' = Tail(microtasks) /\ event' = event

\* the step handles a user event
EventStep == ~MicrotaskStep

\* C21: every call of onSelectionChange passes an option that is an element
\* of the caller's options list and whose label contained the input text
\* (case-insensitively) at the moment of selection; it is called at most
\* once per user event, never with null, and never by typing, arrow keys,
\* Escape, Tab, clicks on the input or outside mousedowns.
C21_SelectionIsShownOption ==
    [][ EventStep =>
          LET calls == event'.onSelectionChange IN
          /\ Len(calls) <= 1
          /\ \A i \in DOMAIN calls :
                /\ calls[i] \in Range(options)
                /\ includes(toLowerCase(calls[i].label), toLowerCase(inputValue))
          /\ calls # <<>> =>
                \/ event'.type = "keydown" /\ event'.key = KEYS.ENTER
                \/ event'.type = "click" /\ event'.target # "input" ]_vars

\* Enter selected the second option of the caller's list, shown at index 0
\* of a filtered list
C21_Witness ==
    /\ event.type = "keydown"
    /\ event.key = KEYS.ENTER
    /\ Len(options) > 1
    /\ event.onSelectionChange = <<options[2]>>
    /\ event.seen.highlightedIndex = 0

\* C22: the toggling flag set by a click on the input is cleared by the
\* microtask queued in the same handler before any later user event is
\* handled: the flag set is eventually followed by the flag false, no
\* user event and in particular no text input observes the flag true, and
\* every text input on an enabled combobox opens the popup and resets the
\* highlighted index.
C22_TogglingFlagCleared ==
    /\ [](isTogglingRef => <>(~isTogglingRef))
    /\ [][ EventStep =>
              /\ ~isTogglingRef
              /\ (event'.type = "input" /\ ~disabled) =>
                     (isOpen' /\ highlightedIndex' = 0) ]_vars

\* a text typed right after the click that closed the popup opened it again
C22_Witness ==
    /\ ~disabled
    /\ event.type = "input"
    /\ event.seen.afterClick
    /\ ~event.seen.isOpen
    /\ ~isTogglingRef
    /\ isOpen
    /\ highlightedIndex = 0

====
